---- MODULE Spec2Model ----
(***************************************************************************)
(* State-synchronization and command-orchestration layer of the USB-Shield *)
(* front end (the App component): the Store held in React state, the       *)
(* asynchronous operations that write it, the gateway calls in flight and  *)
(* the lifecycle of the "usb-device-changed" subscription.                 *)
(*                                                                         *)
(* Every asynchronous function is a task in the bag `tasks`.  A task       *)
(* suspends at each `await invoke(...)`; a gateway call goes through three *)
(* stages: "sent" (issued by the client), "replied" (the backend has       *)
(* handled it and the response is on its way), "settled" (the response was *)
(* delivered and the continuation after the await has run).  Everything    *)
(* the continuation does up to the next await is one step.                 *)
(***************************************************************************)
EXTENDS Bags, FiniteSets, Integers, Sequences, TLC

VARIABLES
    devices,            \* useState<UsbDeviceInfo[]>([])
    trustedDevices,     \* useState<TrustedDevice[]>([])
    autoblockEnabled,   \* useState<boolean>(true)
    error,              \* useState<string | null>(null)
    isLoading,          \* useState<boolean>(true)
    blockStatus,        \* useState<"idle" | "blocking" | "unblocking">("idle")
    tasks,              \* bag of the asynchronous functions that have not returned
    cleanupPromise,     \* "pending", "unlisten" (resolved with the handle) or "void"
    unmounted,          \* the effect's cleanup function has been called
    unlistenCalls,      \* how many times the unsubscribe handle was called
    rejected,           \* operations whose promise rejected (unhandled failure)
    bConnected,         \* backend: identities of the attached devices
    bTrusted,           \* backend: the persisted allow-list
    bAutoblock,         \* backend: the autoblock policy flag
    bListening,         \* backend: a "usb-device-changed" listener is registered
    ops,                \* operations invoked so far
    limit,              \* operations the user and the event source invoke in this run
    faults,             \* gateway calls that have failed so far
    last                \* the last step the client took

store == <<devices, trustedDevices, autoblockEnabled, error, isLoading, blockStatus>>
life == <<cleanupPromise, unmounted, unlistenCalls>>
backend == <<bConnected, bTrusted, bAutoblock, bListening>>
vars == <<store, tasks, life, rejected, backend, ops, limit, faults, last>>

----------------------------------------------------------------------------
(* Bounds of the model *)

MaxOps == 1         \* operations invoked after mounting, all operations enabled
MaxOverlap == 2     \* operations invoked in the runs of a single kind of operation
MaxFaults == 2      \* gateway calls that fail
MaxToggles == 3     \* autoblock toggles invoked in the runs of toggleAutoblock alone

(* The (vendor_id, product_id) identities that exist *)
Pairs == {<<1133, 50475>>}

(* What a failing call rejects with: a plain value or an Error instance *)
ErrValues == {[isError |-> FALSE, message |-> "e1"],
              [isError |-> TRUE, message |-> "e2"]}
NoErr == [isError |-> FALSE, message |-> ""]

----------------------------------------------------------------------------
(* Values *)

Null == <<>>
Some(m) == <<m>>

UsbDeviceInfo(pair, t) == [vendor_id |-> pair[1], product_id |-> pair[2], trusted |-> t]
NoDevice == [vendor_id |-> 0, product_id |-> 0, trusted |-> FALSE]
PairOf(d) == <<d.vendor_id, d.product_id>>

(* String(err) *)
String(err) == IF err.isError THEN "Error: " \o err.message ELSE err.message

(* err instanceof Error ? err.message : String(err) *)
ErrText(err) == IF err.isError THEN err.message ELSE String(err)

Store == [devices |-> devices, trustedDevices |-> trustedDevices,
          autoblockEnabled |-> autoblockEnabled, error |-> error,
          isLoading |-> isLoading, blockStatus |-> blockStatus]

Commit(s) ==
    /\ devices' = s.devices
    /\ trustedDevices' = s.trustedDevices
    /\ autoblockEnabled' = s.autoblockEnabled
    /\ error' = s.error
    /\ isLoading' = s.isLoading
    /\ blockStatus' = s.blockStatus

setDevices(s, v) == [s EXCEPT !.devices = v]
setTrustedDevices(s, v) == [s EXCEPT !.trustedDevices = v]
setAutoblockEnabled(s, v) == [s EXCEPT !.autoblockEnabled = v]
(* Variant: a pending message is kept until it is cleared *)
setErrorKeepFirst(s, v) ==
    IF s.error # Null /\ v # Null THEN s ELSE [s EXCEPT !.error = v]

setError(s, v) == [s EXCEPT !.error = v]
setIsLoading(s, v) == [s EXCEPT !.isLoading = v]
setBlockStatus(s, v) == [s EXCEPT !.blockStatus = v]

----------------------------------------------------------------------------
(* Gateway calls and tasks *)

Call(cmd, pair, enabled) ==
    [cmd |-> cmd, pair |-> pair, enabled |-> enabled, st |-> "sent", ok |-> FALSE,
     err |-> NoErr, devs |-> <<>>, pairs |-> <<>>, flag |-> FALSE]

invoke(cmd) == Call(cmd, <<0, 0>>, FALSE)

Task(op, pc, dev, calls) == [op |-> op, pc |-> pc, dev |-> dev, calls |-> calls]

InFlight == BagToSet(tasks)
Spawn(t) == tasks (+) SetToBag({t})
Return(t) == tasks (-) SetToBag({t})
Resume(t, u) == (tasks (-) SetToBag({t})) (+) SetToBag({u})

Settled(c) == [c EXCEPT !.st = "settled"]
Await(t, c, pc, new) ==
    [t EXCEPT !.pc = pc, !.calls = ((t.calls \ {c}) \cup {Settled(c)}) \cup new]
(* Variant: Promise.race, the fan-out is over with the first response *)
PendingReplied(t) == {c \in t.calls : c.st = "replied"}

Pending(t) == {c \in t.calls : c.st # "settled"}
Replied(t) == {c \in t.calls : c.st = "replied"}

(* The last step of the client: which operation, at which stage, and the *)
(* response it received (ok, err); clean = no call of the task has failed  *)
Started(op) ==
    [op |-> op, ev |-> "start", pc |-> "-", cmd |-> "-", ok |-> TRUE, err |-> NoErr,
     clean |-> TRUE]
Received(t, ev, c) ==
    [op |-> t.op, ev |-> ev, pc |-> t.pc, cmd |-> c.cmd, ok |-> c.ok, err |-> c.err,
     clean |-> c.ok /\ \A x \in t.calls : x.st = "settled" => x.ok]
Resumed(t, ev) ==
    [op |-> t.op, ev |-> ev, pc |-> t.pc, cmd |-> "-", ok |-> TRUE, err |-> NoErr,
     clean |-> \A x \in t.calls : x.ok]

----------------------------------------------------------------------------
(* try/catch: the functions whose awaits sit in a try block with a catch *)

(* Variant: initializeApp awaits listen outside a try block *)
TryCatchWithoutInitializeApp ==
    {"refreshDevices", "refreshTrustedDevices", "checkAutoblockMode",
     "toggleDeviceTrust", "toggleAutoblock", "blockAllPorts", "unblockPorts"}

TryCatch == {"initializeApp", "refreshDevices", "refreshTrustedDevices",
             "checkAutoblockMode", "toggleDeviceTrust", "toggleAutoblock",
             "blockAllPorts", "unblockPorts"}

(* The message each catch block hands to setError *)
CatchMessage(fn, err) ==
    CASE fn = "initializeApp" -> ErrText(err)
      [] fn = "refreshDevices" -> "Failed to fetch devices: " \o ErrText(err)
      [] fn = "refreshTrustedDevices" -> "Failed to fetch trusted devices: " \o ErrText(err)
      [] fn = "checkAutoblockMode" -> "Failed to get autoblock status: " \o ErrText(err)
      [] fn = "toggleDeviceTrust" -> "Failed to update device trust: " \o ErrText(err)
      [] fn = "toggleAutoblock" -> "Failed to toggle autoblock: " \o ErrText(err)
      [] fn = "blockAllPorts" -> String(err)
      [] fn = "unblockPorts" -> "Failed to unblock ports: " \o ErrText(err)

(* A rejected await inside fn: its catch block runs, if it has one *)
Catch(fn, s, err) ==
    IF fn \in TryCatch THEN setError(s, Some(CatchMessage(fn, err))) ELSE s

(* ... and otherwise the rejection leaves fn unhandled *)
Unhandled(fn, c) == IF c.ok \/ fn \in TryCatch THEN {} ELSE {fn}

(* The async function whose body awaits the call c of task t *)
FnOf(t, c) ==
    CASE c.cmd = "get_usb_devices" -> "refreshDevices"
      [] c.cmd = "get_trusted_devices" -> "refreshTrustedDevices"
      [] c.cmd = "get_autoblock_mode" -> "checkAutoblockMode"
      [] OTHER -> t.op

----------------------------------------------------------------------------
(* The code after each await, as a function of the Store and the response *)

(* Variant: the fetched entries are added to the list instead of replacing it *)
refreshDevicesAppend(s, c) ==
    IF c.ok
    THEN setError(setDevices(s, s.devices \o c.devs), Null)
    ELSE Catch("refreshDevices", s, c.err)

(* Variant: the refresh also derives the trusted pairs from the fetched entries *)
refreshDevicesAndTrusted(s, c) ==
    IF c.ok
    THEN setTrustedDevices(setError(setDevices(s, c.devs), Null),
                           [i \in DOMAIN c.devs |-> PairOf(c.devs[i])])
    ELSE Catch("refreshDevices", s, c.err)

refreshDevices(s, c) ==
    IF c.ok
    THEN setError(setDevices(s, c.devs), Null)
    ELSE Catch("refreshDevices", s, c.err)

refreshTrustedDevices(s, c) ==
    IF c.ok
    THEN setTrustedDevices(s, c.pairs)
    ELSE Catch("refreshTrustedDevices", s, c.err)

checkAutoblockMode(s, c) ==
    IF c.ok
    THEN setAutoblockEnabled(s, c.flag)
    ELSE Catch("checkAutoblockMode", s, c.err)

(* The branch of a concurrent fan-out that a response belongs to *)
Fetch(s, c) ==
    CASE c.cmd = "get_usb_devices" -> refreshDevices(s, c)
      [] c.cmd = "get_trusted_devices" -> refreshTrustedDevices(s, c)
      [] c.cmd = "get_autoblock_mode" -> checkAutoblockMode(s, c)

(* Variant: the loading flag is reset at the end of the try block, not in a finally *)
initializeAppListenNoFinally(s, c) ==
    IF c.ok THEN setIsLoading(s, FALSE) ELSE Catch("initializeApp", s, c.err)

(* initializeApp after `await listen(...)`: return, catch, finally *)
initializeAppListen(s, c) ==
    setIsLoading(IF c.ok THEN s ELSE Catch("initializeApp", s, c.err), FALSE)

initializeAppResult(c) == IF c.ok THEN "unlisten" ELSE "void"

(* Variant: the trusted flag of the entry is ignored *)
toggleDeviceTrustCallAlwaysAdd(device) ==
    Call("add_trusted_device", <<device.vendor_id, device.product_id>>, FALSE)

(* toggleDeviceTrust: which command the entry's trusted flag selects *)
toggleDeviceTrustCall(device) ==
    Call(IF device.trusted THEN "remove_trusted_device" ELSE "add_trusted_device",
         <<device.vendor_id, device.product_id>>, FALSE)

(* Variant: the re-sync does not wait for the outcome of the add/remove call *)
toggleDeviceTrustResyncAlways(c) ==
    {invoke("get_usb_devices"), invoke("get_trusted_devices")}

(* toggleDeviceTrust: the re-sync issued after the add/remove call *)
toggleDeviceTrustResync(c) ==
    IF c.ok THEN {invoke("get_usb_devices"), invoke("get_trusted_devices")} ELSE {}

(* Variant: the caller's view of the entry is flipped whatever the call's outcome *)
toggleDeviceTrustMutateOptimistic(s, c) ==
    LET flipped == [i \in DOMAIN s.devices |->
                       [s.devices[i] EXCEPT !.trusted = ~s.devices[i].trusted]]
    IN IF c.ok THEN s ELSE Catch("toggleDeviceTrust", setDevices(s, flipped), c.err)

(* toggleDeviceTrust: the code after the add/remove call, up to the re-sync *)
toggleDeviceTrustMutate(s, c) ==
    IF c.ok THEN s ELSE Catch("toggleDeviceTrust", s, c.err)

(* toggleAutoblock: newMode, and the code after the await *)
toggleAutoblockCall(s) == Call("set_autoblock_mode", <<0, 0>>, ~s.autoblockEnabled)

(* Variant: the flag is written whatever the outcome of the call *)
toggleAutoblockDoneAlways(s, c) ==
    IF c.ok THEN setAutoblockEnabled(s, c.enabled)
    ELSE Catch("toggleAutoblock", setAutoblockEnabled(s, c.enabled), c.err)

toggleAutoblockDone(s, c) ==
    IF c.ok THEN setAutoblockEnabled(s, c.enabled) ELSE Catch("toggleAutoblock", s, c.err)

(* blockAllPorts: the finally block *)
blockAllPortsFinally(s) == setBlockStatus(s, "idle")

(* Variant: the next step is issued whatever the outcome of the previous one *)
blockAllPortsNextAlways(c) ==
    CASE c.cmd = "block_all_usb_ports" -> {invoke("restart_usb_service")}
      [] c.cmd = "restart_usb_service" -> {invoke("get_usb_devices")}

(* blockAllPorts: the step after block_all_usb_ports or restart_usb_service *)
blockAllPortsNext(c) ==
    CASE ~c.ok -> {}
      [] c.cmd = "block_all_usb_ports" -> {invoke("restart_usb_service")}
      [] c.cmd = "restart_usb_service" -> {invoke("get_usb_devices")}

(* Variant: the status reset sits at the end of the try block, not in a finally *)
blockAllPortsStepNoFinally(s, c) ==
    IF c.ok THEN s ELSE Catch("blockAllPorts", s, c.err)

blockAllPortsStep(s, c) ==
    IF c.ok THEN s ELSE blockAllPortsFinally(Catch("blockAllPorts", s, c.err))

(* blockAllPorts: after `await refreshDevices()` has resumed *)
blockAllPortsDone(s) == blockAllPortsFinally(setError(s, Null))

(* unblockPorts: the step after unblock_usb_port *)
unblockPortsNext(c) == IF c.ok THEN {invoke("get_usb_devices")} ELSE {}

(* Variant: unblockPorts tracks its progress in blockStatus *)
unblockPortsStepTracked(s, c) ==
    IF c.ok THEN setBlockStatus(s, "unblocking")
    ELSE setBlockStatus(Catch("unblockPorts", s, c.err), "idle")

unblockPortsStep(s, c) == IF c.ok THEN s ELSE Catch("unblockPorts", s, c.err)

----------------------------------------------------------------------------
(* Initial state: the component has just mounted and the effect has run *)

InitialFetches == {invoke("get_usb_devices"), invoke("get_trusted_devices"),
                   invoke("get_autoblock_mode")}

Mounted(n) ==
    /\ devices = <<>>
    /\ trustedDevices = <<>>
    /\ autoblockEnabled = TRUE
    /\ error = Null
    /\ isLoading = TRUE
    /\ blockStatus = "idle"
    /\ tasks = SetToBag({Task("initializeApp", "fetch", NoDevice, InitialFetches)})
    /\ cleanupPromise = "pending"
    /\ unmounted = FALSE
    /\ unlistenCalls = 0
    /\ rejected = {}
    /\ bConnected \in SUBSET Pairs
    /\ bTrusted \in SUBSET Pairs
    /\ bAutoblock \in BOOLEAN
    /\ bListening = FALSE
    /\ ops = 0
    /\ limit = n
    /\ faults = 0
    /\ last = Started("initializeApp")

Init == Mounted(MaxOps)

----------------------------------------------------------------------------
(* The backend behind the Command Gateway *)

(* The order in which the backend lists a set *)
RECURSIVE Listed(_)
Listed(S) == IF S = {} THEN <<>>
             ELSE LET x == CHOOSE y \in S : TRUE IN <<x>> \o Listed(S \ {x})

(* get_usb_devices: the attached devices, trusted = membership in the allow-list *)
get_usb_devices ==
    [i \in DOMAIN Listed(bConnected) |->
        UsbDeviceInfo(Listed(bConnected)[i], Listed(bConnected)[i] \in bTrusted)]

(* get_trusted_devices: the allow-list *)
get_trusted_devices == Listed(bTrusted)

(* The response to a call the backend carries out *)
Response(c) ==
    [c EXCEPT !.st = "replied", !.ok = TRUE,
              !.devs = IF c.cmd = "get_usb_devices" THEN get_usb_devices ELSE <<>>,
              !.pairs = IF c.cmd = "get_trusted_devices" THEN get_trusted_devices ELSE <<>>,
              !.flag = IF c.cmd = "get_autoblock_mode" THEN bAutoblock ELSE FALSE]

(* ... and to one that fails, leaving the backend as it was *)
Rejection(c, e) == [c EXCEPT !.st = "replied", !.ok = FALSE, !.err = e]

Reply(t, c, r) == Resume(t, [t EXCEPT !.calls = (@ \ {c}) \cup {r}])

GatewayOk ==
    \E t \in InFlight : \E c \in t.calls :
        /\ c.st = "sent"
        /\ tasks' = Reply(t, c, Response(c))
        /\ bTrusted' = CASE c.cmd = "add_trusted_device" -> bTrusted \cup {c.pair}
                         [] c.cmd = "remove_trusted_device" -> bTrusted \ {c.pair}
                         [] OTHER -> bTrusted
        /\ bAutoblock' = IF c.cmd = "set_autoblock_mode" THEN c.enabled ELSE bAutoblock
        /\ bListening' = IF c.cmd = "listen" THEN TRUE ELSE bListening
        /\ UNCHANGED <<store, life, rejected, bConnected, ops, limit, faults, last>>

GatewayFail ==
    \E t \in InFlight : \E c \in t.calls : \E e \in ErrValues :
        /\ c.st = "sent"
        /\ faults < MaxFaults
        /\ faults' = faults + 1
        /\ tasks' = Reply(t, c, Rejection(c, e))
        /\ UNCHANGED <<store, life, rejected, backend, ops, limit, last>>

(* A device is attached or removed *)
HotPlug ==
    \E p \in Pairs :
        /\ bConnected' = IF p \in bConnected THEN bConnected \ {p} ELSE bConnected \cup {p}
        /\ UNCHANGED <<store, tasks, life, rejected, bTrusted, bAutoblock, bListening,
                       ops, limit, faults, last>>

----------------------------------------------------------------------------
(* initializeApp and the effect's cleanup *)

(* A response of the initial Promise.all arrives; after the last one, listen *)
InitializeAppFetch ==
    \E t \in InFlight : \E c \in Replied(t) :
        /\ t.op = "initializeApp" /\ t.pc = "fetch"
        /\ Commit(Fetch(Store, c))
        /\ rejected' = rejected \cup Unhandled(FnOf(t, c), c)
        /\ IF Pending(t) = {c}
           THEN /\ tasks' = Resume(t, Await(t, c, "listen", {invoke("listen")}))
                /\ last' = Received(t, "fetched", c)
           ELSE /\ tasks' = Resume(t, Await(t, c, "fetch", {}))
                /\ last' = Received(t, "await", c)
        /\ UNCHANGED <<life, backend, ops, limit, faults>>

(* cleanupPromise.then((unlisten) => { if (unlisten && ...) unlisten(); }) *)
cleanupThen(result, calls) == IF result = "unlisten" THEN calls + 1 ELSE calls

(* Variant: the cleanup releases the handle only if it is already there *)
RunThenNaive(requested, result) ==
    /\ unlistenCalls' = IF ~unmounted /\ requested /\ result # "pending"
                        THEN cleanupThen(result, unlistenCalls)
                        ELSE unlistenCalls
    /\ bListening' = IF unlistenCalls' > unlistenCalls THEN FALSE ELSE bListening

(* The .then callback runs as soon as the cleanup has been requested and *)
(* cleanupPromise is resolved; calling the handle removes the listener    *)
RunThen(requested, result) ==
    /\ unlistenCalls' = IF requested /\ result # "pending"
                        THEN cleanupThen(result, unlistenCalls)
                        ELSE unlistenCalls
    /\ bListening' = IF unlistenCalls' > unlistenCalls THEN FALSE ELSE bListening

(* The subscription request settles: return unlisten / catch, then finally *)
InitializeAppListen ==
    \E t \in InFlight : \E c \in Replied(t) :
        /\ t.op = "initializeApp" /\ t.pc = "listen"
        /\ Commit(initializeAppListen(Store, c))
        /\ rejected' = rejected \cup Unhandled("initializeApp", c)
        /\ cleanupPromise' = initializeAppResult(c)
        /\ RunThen(unmounted, cleanupPromise')
        /\ tasks' = Return(t)
        /\ last' = Received(t, "settle", c)
        /\ UNCHANGED <<unmounted, bConnected, bTrusted, bAutoblock, ops, limit, faults>>

(* The component is deactivated: the cleanup function chains on cleanupPromise *)
Cleanup ==
    /\ ~unmounted
    /\ unmounted' = TRUE
    /\ RunThen(TRUE, cleanupPromise)
    /\ last' = Started("cleanup")
    /\ UNCHANGED <<store, tasks, cleanupPromise, rejected, bConnected, bTrusted,
                   bAutoblock, ops, limit, faults>>

----------------------------------------------------------------------------
(* Operations *)

CanInvoke == ops < limit

(* The controls are rendered once isLoading is false, while mounted *)
Rendered == ~isLoading /\ ~unmounted

(* "usb-device-changed" is delivered: the handler is refreshDevices *)
DeviceChanged ==
    /\ bListening /\ CanInvoke
    /\ ops' = ops + 1
    /\ tasks' = Spawn(Task("refreshDevices", "fetch", NoDevice, {invoke("get_usb_devices")}))
    /\ last' = Started("refreshDevices")
    /\ UNCHANGED <<store, life, rejected, backend, limit, faults>>

RefreshDevicesDone ==
    \E t \in InFlight : \E c \in Replied(t) :
        /\ t.op = "refreshDevices"
        /\ Commit(refreshDevices(Store, c))
        /\ rejected' = rejected \cup Unhandled("refreshDevices", c)
        /\ tasks' = Return(t)
        /\ last' = Received(t, "settle", c)
        /\ UNCHANGED <<life, backend, ops, limit, faults>>

ToggleDeviceTrust ==
    \E i \in DOMAIN devices : LET device == devices[i] IN
        /\ Rendered /\ CanInvoke
        /\ ops' = ops + 1
        /\ tasks' = Spawn(Task("toggleDeviceTrust", "mutate", device,
                               {toggleDeviceTrustCall(device)}))
        /\ last' = Started("toggleDeviceTrust")
        /\ UNCHANGED <<store, life, rejected, backend, limit, faults>>

ToggleDeviceTrustMutate ==
    \E t \in InFlight : \E c \in Replied(t) :
        /\ t.op = "toggleDeviceTrust" /\ t.pc = "mutate"
        /\ Commit(toggleDeviceTrustMutate(Store, c))
        /\ rejected' = rejected \cup Unhandled("toggleDeviceTrust", c)
        /\ IF toggleDeviceTrustResync(c) # {}
           THEN /\ tasks' = Resume(t, Await(t, c, "resync", toggleDeviceTrustResync(c)))
                /\ last' = Received(t, "await", c)
           ELSE /\ tasks' = Return(t)
                /\ last' = Received(t, "settle", c)
        /\ UNCHANGED <<life, backend, ops, limit, faults>>

ToggleDeviceTrustResync ==
    \E t \in InFlight : \E c \in Replied(t) :
        /\ t.op = "toggleDeviceTrust" /\ t.pc = "resync"
        /\ Commit(Fetch(Store, c))
        /\ rejected' = rejected \cup Unhandled(FnOf(t, c), c)
        /\ IF Pending(t) = {c}
           THEN /\ tasks' = Return(t)
                /\ last' = Received(t, "settle", c)
           ELSE /\ tasks' = Resume(t, Await(t, c, "resync", {}))
                /\ last' = Received(t, "await", c)
        /\ UNCHANGED <<life, backend, ops, limit, faults>>

ToggleAutoblock ==
    /\ Rendered /\ CanInvoke
    /\ ops' = ops + 1
    /\ tasks' = Spawn(Task("toggleAutoblock", "set", NoDevice, {toggleAutoblockCall(Store)}))
    /\ last' = Started("toggleAutoblock")
    /\ UNCHANGED <<store, life, rejected, backend, limit, faults>>

ToggleAutoblockDone ==
    \E t \in InFlight : \E c \in Replied(t) :
        /\ t.op = "toggleAutoblock"
        /\ Commit(toggleAutoblockDone(Store, c))
        /\ rejected' = rejected \cup Unhandled("toggleAutoblock", c)
        /\ tasks' = Return(t)
        /\ last' = Received(t, "settle", c)
        /\ UNCHANGED <<life, backend, ops, limit, faults>>

BlockAllPorts ==
    /\ Rendered /\ CanInvoke
    /\ ops' = ops + 1
    /\ Commit(setBlockStatus(Store, "blocking"))
    /\ tasks' = Spawn(Task("blockAllPorts", "command", NoDevice,
                           {invoke("block_all_usb_ports")}))
    /\ last' = Started("blockAllPorts")
    /\ UNCHANGED <<life, rejected, backend, limit, faults>>

(* block_all_usb_ports or restart_usb_service settles *)
BlockAllPortsStep ==
    \E t \in InFlight : \E c \in Replied(t) :
        /\ t.op = "blockAllPorts" /\ t.pc = "command"
        /\ Commit(blockAllPortsStep(Store, c))
        /\ rejected' = rejected \cup Unhandled("blockAllPorts", c)
        /\ IF blockAllPortsNext(c) # {}
           THEN /\ tasks' = Resume(t, Await(t, c,
                        IF c.cmd = "restart_usb_service" THEN "resync" ELSE "command",
                        blockAllPortsNext(c)))
                /\ last' = Received(t, "await", c)
           ELSE /\ tasks' = Return(t)
                /\ last' = Received(t, "settle", c)
        /\ UNCHANGED <<life, backend, ops, limit, faults>>

(* The get_usb_devices of `await refreshDevices()` settles inside refreshDevices *)
BlockAllPortsResync ==
    \E t \in InFlight : \E c \in Replied(t) :
        /\ t.op = "blockAllPorts" /\ t.pc = "resync"
        /\ Commit(refreshDevices(Store, c))
        /\ rejected' = rejected \cup Unhandled("refreshDevices", c)
        /\ tasks' = Resume(t, Await(t, c, "resume", {}))
        /\ last' = Received(t, "await", c)
        /\ UNCHANGED <<life, backend, ops, limit, faults>>

(* blockAllPorts resumes after `await refreshDevices()`: setError(null), finally *)
BlockAllPortsDone ==
    \E t \in InFlight :
        /\ t.op = "blockAllPorts" /\ t.pc = "resume"
        /\ Commit(blockAllPortsDone(Store))
        /\ tasks' = Return(t)
        /\ last' = Resumed(t, "settle")
        /\ UNCHANGED <<life, rejected, backend, ops, limit, faults>>

UnblockPorts ==
    /\ Rendered /\ CanInvoke
    /\ ops' = ops + 1
    /\ tasks' = Spawn(Task("unblockPorts", "command", NoDevice, {invoke("unblock_usb_port")}))
    /\ last' = Started("unblockPorts")
    /\ UNCHANGED <<store, life, rejected, backend, limit, faults>>

UnblockPortsStep ==
    \E t \in InFlight : \E c \in Replied(t) :
        /\ t.op = "unblockPorts" /\ t.pc = "command"
        /\ Commit(unblockPortsStep(Store, c))
        /\ rejected' = rejected \cup Unhandled("unblockPorts", c)
        /\ IF unblockPortsNext(c) # {}
           THEN /\ tasks' = Resume(t, Await(t, c, "resync", unblockPortsNext(c)))
                /\ last' = Received(t, "await", c)
           ELSE /\ tasks' = Return(t)
                /\ last' = Received(t, "settle", c)
        /\ UNCHANGED <<life, backend, ops, limit, faults>>

UnblockPortsResync ==
    \E t \in InFlight : \E c \in Replied(t) :
        /\ t.op = "unblockPorts" /\ t.pc = "resync"
        /\ Commit(refreshDevices(Store, c))
        /\ rejected' = rejected \cup Unhandled("refreshDevices", c)
        /\ tasks' = Return(t)
        /\ last' = Received(t, "settle", c)
        /\ UNCHANGED <<life, backend, ops, limit, faults>>

(* ErrorAlert's onDismiss: () => setError(null) *)
DismissError ==
    /\ Rendered /\ error # Null
    /\ Commit(setError(Store, Null))
    /\ last' = Started("dismiss")
    /\ UNCHANGED <<tasks, life, rejected, backend, ops, limit, faults>>

----------------------------------------------------------------------------

Next ==
    \/ GatewayOk \/ GatewayFail \/ HotPlug
    \/ InitializeAppFetch \/ InitializeAppListen \/ Cleanup
    \/ DeviceChanged \/ RefreshDevicesDone
    \/ ToggleDeviceTrust \/ ToggleDeviceTrustMutate \/ ToggleDeviceTrustResync
    \/ ToggleAutoblock \/ ToggleAutoblockDone
    \/ BlockAllPorts \/ BlockAllPortsStep \/ BlockAllPortsResync \/ BlockAllPortsDone
    \/ UnblockPorts \/ UnblockPortsStep \/ UnblockPortsResync
    \/ DismissError

Spec == Init /\ [][Next]_vars

(* The backend answers a call that was issued; the event loop runs the        *)
(* continuation of an await whose response has arrived                        *)
Answer == GatewayOk \/ GatewayFail

Deliver ==
    \/ InitializeAppFetch \/ InitializeAppListen
    \/ RefreshDevicesDone
    \/ ToggleDeviceTrustMutate \/ ToggleDeviceTrustResync
    \/ ToggleAutoblockDone
    \/ BlockAllPortsStep \/ BlockAllPortsResync \/ BlockAllPortsDone
    \/ UnblockPortsStep \/ UnblockPortsResync

(* Every issued call is eventually answered and every answer delivered *)
FairSpec == Init /\ [][Next]_vars /\ WF_vars(Answer) /\ WF_vars(Deliver)

(* Trust toggles, hot-plug refreshes and unblockPorts, every call succeeding *)
TrustNext ==
    \/ GatewayOk \/ HotPlug
    \/ InitializeAppFetch \/ InitializeAppListen
    \/ DeviceChanged \/ RefreshDevicesDone
    \/ ToggleDeviceTrust \/ ToggleDeviceTrustMutate \/ ToggleDeviceTrustResync
    \/ UnblockPorts \/ UnblockPortsStep \/ UnblockPortsResync

TrustSpec == Mounted(MaxOverlap) /\ [][TrustNext]_vars

Quiet == tasks = EmptyBag

(* One device, attached and not trusted; trust toggles invoked one after the other *)
ToggleInit == Mounted(MaxOverlap) /\ bConnected = Pairs /\ bTrusted = {}

ToggleNext ==
    \/ GatewayOk \/ GatewayFail
    \/ InitializeAppFetch \/ InitializeAppListen
    \/ (Quiet /\ ToggleDeviceTrust)
    \/ ToggleDeviceTrustMutate \/ ToggleDeviceTrustResync

ToggleSpec == ToggleInit /\ [][ToggleNext]_vars

(* Device refreshes one after the other against a backend that does not change; *)
(* only the calls of the initialization may fail                                *)
RefreshNext ==
    \/ GatewayOk \/ (isLoading /\ GatewayFail)
    \/ InitializeAppFetch \/ InitializeAppListen
    \/ (Quiet /\ DeviceChanged)
    \/ RefreshDevicesDone

RefreshSpec == Mounted(MaxOverlap) /\ [][RefreshNext]_vars

(* Autoblock toggles alone, overlapping; the initialization succeeds, any call *)
(* of a toggle may fail                                                        *)
AutoblockNext ==
    \/ GatewayOk \/ (~isLoading /\ GatewayFail)
    \/ InitializeAppFetch \/ InitializeAppListen
    \/ ToggleAutoblock \/ ToggleAutoblockDone

AutoblockSpec == Mounted(MaxToggles) /\ [][AutoblockNext]_vars

(* blockAllPorts and unblockPorts, overlapping, any call may fail *)
BlockNext ==
    \/ GatewayOk \/ GatewayFail
    \/ InitializeAppFetch \/ InitializeAppListen
    \/ BlockAllPorts \/ BlockAllPortsStep \/ BlockAllPortsResync \/ BlockAllPortsDone
    \/ UnblockPorts \/ UnblockPortsStep \/ UnblockPortsResync

BlockSpec == Mounted(MaxOverlap) /\ [][BlockNext]_vars

----------------------------------------------------------------------------
(* Properties *)

CallOf(t, cmd) == CHOOSE c \in t.calls : c.cmd = cmd

(* C1: blockStatus is "blocking" right after a blockAllPorts invocation starts *)
(* and "idle" at the moment that invocation settles, whichever of its steps   *)
(* succeeded or failed.                                                        *)
C1_StatusBracket ==
    /\ (last.op = "blockAllPorts" /\ last.ev = "start") => blockStatus = "blocking"
    /\ (last.op = "blockAllPorts" /\ last.ev = "settle") => blockStatus = "idle"

(* A blockAllPorts call has settled because restart_usb_service failed *)
C1_Witness ==
    /\ last.op = "blockAllPorts" /\ last.ev = "settle"
    /\ last.cmd = "restart_usb_service" /\ ~last.ok
    /\ blockStatus = "idle"

(* C2: when the initial triad has settled with get_trusted_devices failed and *)
(* the two other fetches successful, devices and autoblockEnabled hold the    *)
(* returned values and the error slot holds the "trusted devices" message,    *)
(* in whatever order the three responses arrived.                             *)
C2_PartialTriadIsolation ==
    \A t \in InFlight :
        (/\ t.op = "initializeApp"
         /\ last.op = "initializeApp" /\ last.ev = "fetched"
         /\ CallOf(t, "get_usb_devices").ok
         /\ ~CallOf(t, "get_trusted_devices").ok
         /\ CallOf(t, "get_autoblock_mode").ok)
        => /\ devices = CallOf(t, "get_usb_devices").devs
           /\ autoblockEnabled = CallOf(t, "get_autoblock_mode").flag
           /\ error = Some("Failed to fetch trusted devices: "
                           \o ErrText(CallOf(t, "get_trusted_devices").err))

(* C3: the unsubscribe handle has been called exactly once as soon as the     *)
(* cleanup was requested and initializeApp has returned the handle, and not   *)
(* at all before that or when no handle was obtained; never twice.            *)
C3_UnsubscribeOnce ==
    unlistenCalls = IF unmounted /\ cleanupPromise = "unlisten" THEN 1 ELSE 0

(* The cleanup was requested while initialization was pending, and the handle *)
(* was released when initializeApp settled                                    *)
C3_Witness ==
    /\ last.op = "initializeApp" /\ last.ev = "settle"
    /\ unmounted /\ cleanupPromise = "unlisten"
    /\ unlistenCalls = 1 /\ ~bListening

(* The entry's flag agrees with the trusted-pair snapshot *)
Agrees(d) ==
    d.trusted <=> \E j \in DOMAIN trustedDevices : trustedDevices[j] = PairOf(d)

(* C4: with every gateway call succeeding, once no operation is in flight     *)
(* every entry of devices has trusted = TRUE exactly when its identity is in  *)
(* trustedDevices.                                                            *)
C4_TrustAgreement ==
    (Quiet /\ ~isLoading) => \A i \in DOMAIN devices : Agrees(devices[i])

(* The device of the toggle runs, and the add/remove and re-sync calls of a task *)
TheDevice(t) == UsbDeviceInfo(CHOOSE p \in Pairs : TRUE, t)
Mutations(t) == {c \in t.calls : c.cmd \in {"add_trusted_device", "remove_trusted_device"}}
Refetches(t) == {c \in t.calls : c.cmd \in {"get_usb_devices", "get_trusted_devices"}}

(* C5: starting from an attached untrusted device, with every call succeeding, *)
(* after each settled toggle the entry agrees with trustedDevices, the first   *)
(* toggle flips the flag and the second one restores the original value.       *)
C5_RoundTrip ==
    (Quiet /\ ~isLoading /\ faults = 0)
    => /\ \A i \in DOMAIN devices : Agrees(devices[i])
       /\ devices = <<TheDevice(ops % 2 = 1)>>

(* Two toggles have settled and the entry is untrusted again *)
C5_Witness ==
    /\ Quiet /\ faults = 0 /\ ops = 2
    /\ last.op = "toggleDeviceTrust" /\ last.ev = "settle"
    /\ devices = <<TheDevice(FALSE)>> /\ trustedDevices = <<>>

(* C6: when a mutation whose commands succeeded returns after a re-sync fetch *)
(* failed, the error slot holds the message of a re-sync failure.             *)
C6_ResyncFailureReported ==
    (/\ last.ev = "settle"
     /\ last.op \in {"toggleDeviceTrust", "blockAllPorts", "unblockPorts"}
     /\ last.pc \in {"resync", "resume"}
     /\ ~last.clean)
    => \E e \in ErrValues :
           error \in {Some(CatchMessage("refreshDevices", e)),
                      Some(CatchMessage("refreshTrustedDevices", e))}

(* The step that received a failed response *)
Failure == last.cmd # "-" /\ ~last.ok

(* C7: no operation's promise rejects, and the step that receives a failed    *)
(* response leaves a message in the error slot.                               *)
C7_NoEscape == rejected = {} /\ (Failure => error # Null)

(* The subscription request failed and initializeApp returned normally *)
C7_Witness ==
    /\ last.op = "initializeApp" /\ last.cmd = "listen" /\ ~last.ok
    /\ cleanupPromise = "void" /\ ~isLoading
    /\ error # Null /\ rejected = {}

(* C8: after a failure is recorded the error slot holds exactly that failure's *)
(* message, whatever it held before.                                           *)
C8_LastErrorWins ==
    Failure => error = Some(CatchMessage(FnOf(last, last), last.err))

(* The trusted-pair fetch failed, nothing has cleared its message since, and   *)
(* the autoblock fetch has now failed too: the slot holds the second message   *)
C8_Witness ==
    \E t \in InFlight :
        /\ t.op = "initializeApp" /\ t.pc = "fetch"
        /\ CallOf(t, "get_usb_devices").st # "settled"
        /\ CallOf(t, "get_trusted_devices").st = "settled"
        /\ ~CallOf(t, "get_trusted_devices").ok
        /\ last.cmd = "get_autoblock_mode" /\ ~last.ok
        /\ error = Some("Failed to get autoblock status: " \o ErrText(last.err))

(* C9: against an unchanged backend, a device refresh that follows a          *)
(* successful device refresh leaves the whole Store as it was, with no error. *)
C9_RefreshIdempotent ==
    [][(RefreshDevicesDone /\ ops >= 2) => (UNCHANGED store /\ error' = Null)]_vars

(* The second refresh in a row has settled, after an initialization that left *)
(* an error for the first one to clear                                        *)
C9_Witness ==
    /\ Quiet /\ ops = 2 /\ faults > 0
    /\ last.op = "refreshDevices" /\ last.ev = "settle" /\ last.ok
    /\ error = Null /\ devices = get_usb_devices

(* C10: a toggle issues exactly one call, add for an untrusted entry and      *)
(* remove for a trusted one, with the entry's identity; the two re-fetches    *)
(* are issued only once that call has succeeded; and with every call          *)
(* succeeding the first toggle leaves the device trusted and its pair listed. *)
C10_ToggleIssuesOneCall ==
    /\ \A t \in InFlight : t.op = "toggleDeviceTrust" =>
          /\ \E c \in t.calls :
                /\ Mutations(t) = {c}
                /\ c.cmd = IF t.dev.trusted THEN "remove_trusted_device"
                           ELSE "add_trusted_device"
                /\ c.pair = PairOf(t.dev)
                /\ Refetches(t) # {} => (c.st = "settled" /\ c.ok)
                /\ (c.st = "settled" /\ c.ok) =>
                      {r.cmd : r \in Refetches(t)} = {"get_usb_devices", "get_trusted_devices"}
    /\ (Quiet /\ faults = 0 /\ ops = 1) =>
          /\ devices = <<TheDevice(TRUE)>>
          /\ trustedDevices = <<PairOf(TheDevice(TRUE))>>

(* The first toggle of the untrusted device has settled with every call ok *)
C10_Witness ==
    /\ Quiet /\ faults = 0 /\ ops = 1
    /\ last.op = "toggleDeviceTrust" /\ last.ev = "settle" /\ last.clean
    /\ devices = <<TheDevice(TRUE)>>
    /\ trustedDevices = <<PairOf(TheDevice(TRUE))>>

(* C11: the step in which toggleDeviceTrust receives the failure of its add or *)
(* remove call issues no call (the task returns: no re-fetch), leaves devices, *)
(* trustedDevices, autoblockEnabled and blockStatus as they were, and puts the *)
(* "Failed to update device trust: " message in the error slot.                *)
C11_FailedToggleFrame ==
    [][(/\ last'.op = "toggleDeviceTrust" /\ last'.pc = "mutate" /\ ~last'.ok
        /\ ToggleDeviceTrustMutate)
       => /\ tasks' \sqsubseteq tasks
          /\ BagCardinality(tasks') = BagCardinality(tasks) - 1
          /\ last'.ev = "settle"
          /\ UNCHANGED <<devices, trustedDevices, autoblockEnabled, blockStatus>>
          /\ error' = Some("Failed to update device trust: " \o ErrText(last'.err))]_vars

(* The add call of a toggle of a listed device has failed and the toggle has  *)
(* returned without a re-fetch                                                *)
C11_Witness ==
    /\ last.op = "toggleDeviceTrust" /\ last.ev = "settle"
    /\ last.cmd = "add_trusted_device" /\ ~last.ok
    /\ Quiet /\ devices # <<>>
    /\ error = Some("Failed to update device trust: " \o ErrText(last.err))

(* C12: in every blockAllPorts invocation restart_usb_service is issued only   *)
(* after block_all_usb_ports has succeeded and the get_usb_devices re-sync     *)
(* only after both have succeeded; when block_all_usb_ports or                 *)
(* restart_usb_service fails, the invocation returns in that step without      *)
(* issuing a later call and the error slot holds String(err), with no prefix.  *)
C12_BlockSequence ==
    /\ \A t \in InFlight : t.op = "blockAllPorts" =>
          LET has(cmd) == \E c \in t.calls : c.cmd = cmd
              done(cmd) == \E c \in t.calls : c.cmd = cmd /\ c.st = "settled" /\ c.ok
          IN /\ has("block_all_usb_ports")
             /\ has("restart_usb_service") => done("block_all_usb_ports")
             /\ has("get_usb_devices") =>
                   done("block_all_usb_ports") /\ done("restart_usb_service")
             /\ \A c \in t.calls :
                   (c.cmd \in {"block_all_usb_ports", "restart_usb_service"}
                    /\ c.st = "settled") => c.ok
    /\ (/\ last.op = "blockAllPorts" /\ ~last.ok
        /\ last.cmd \in {"block_all_usb_ports", "restart_usb_service"})
       => /\ last.ev = "settle"
          /\ error = Some(String(last.err))

(* restart_usb_service was issued after block_all_usb_ports succeeded and has *)
(* rejected with an Error instance: the invocation is over, the slot holds    *)
(* the stringified rejection                                                  *)
C12_Witness ==
    /\ last.op = "blockAllPorts" /\ last.ev = "settle"
    /\ last.cmd = "restart_usb_service" /\ ~last.ok /\ last.err.isError
    /\ Quiet
    /\ error = Some("Error: " \o last.err.message)

(* C13: invoking toggleAutoblock issues set_autoblock_mode with enabled = the  *)
(* negation of the stored flag and writes nothing; the step that receives the *)
(* response writes the sent value to the flag when the call succeeded, and    *)
(* when it failed leaves the flag as it was and puts the "Failed to toggle    *)
(* autoblock: " message in the error slot.                                    *)
C13_AutoblockWrittenOnSuccess ==
    [][/\ ToggleAutoblock =>
            /\ UNCHANGED store
            /\ tasks' = Spawn(Task("toggleAutoblock", "set", NoDevice,
                                   {Call("set_autoblock_mode", <<0, 0>>, ~autoblockEnabled)}))
       /\ ToggleAutoblockDone =>
            \E t \in InFlight : \E c \in Replied(t) :
                /\ t.op = "toggleAutoblock" /\ tasks' = Return(t)
                /\ c.cmd = "set_autoblock_mode" /\ last'.ok = c.ok /\ last'.err = c.err
                /\ UNCHANGED <<devices, trustedDevices, isLoading, blockStatus>>
                /\ IF c.ok
                   THEN autoblockEnabled' = c.enabled /\ error' = error
                   ELSE /\ autoblockEnabled' = autoblockEnabled
                        /\ error' = Some("Failed to toggle autoblock: " \o ErrText(c.err))
      ]_vars

(* A second toggle has failed after a first one succeeded: the flag keeps the *)
(* value the first one wrote, which is the backend's                          *)
C13_Witness ==
    /\ Quiet /\ ops = 2 /\ faults = 1
    /\ last.op = "toggleAutoblock" /\ last.ev = "settle" /\ ~last.ok
    /\ autoblockEnabled = bAutoblock
    /\ error = Some("Failed to toggle autoblock: " \o ErrText(last.err))

(* C14: while initializeApp has not returned the component is not ready       *)
(* (isLoading) and cleanupPromise is pending; the subscription request exists *)
(* only when each of the three initial fetches has settled, by success or by  *)
(* failure; and the component is ready only when initializeApp has returned,  *)
(* that is after the subscription request settled.                            *)
C14_InitOrdered ==
    /\ \A t \in InFlight : t.op = "initializeApp" =>
          /\ isLoading /\ cleanupPromise = "pending"
          /\ (\E c \in t.calls : c.cmd = "listen") =>
                \A f \in InitialFetches :
                    \E c \in t.calls : c.cmd = f.cmd /\ c.st = "settled"
    /\ isLoading <=> \E t \in InFlight : t.op = "initializeApp"
    /\ ~isLoading => cleanupPromise # "pending"
    /\ bListening => \A t \in InFlight : t.op = "initializeApp" =>
                         \E c \in t.calls : c.cmd = "listen" /\ c.st = "replied" /\ c.ok

(* The subscription has been answered but not yet delivered, after a triad in *)
(* which a fetch failed: the component is still loading                       *)
C14_Witness ==
    \E t \in InFlight :
        /\ t.op = "initializeApp" /\ t.pc = "listen"
        /\ CallOf(t, "listen").st = "replied"
        /\ ~CallOf(t, "get_autoblock_mode").ok
        /\ isLoading /\ error # Null

(* C15: whenever the error slot holds a message and a step receives the       *)
(* successful response of a get_usb_devices or get_trusted_devices fetch, the *)
(* error slot is absent right after that step.                                *)
C15_SuccessClearsError ==
    [][(/\ error # Null
        /\ \/ InitializeAppFetch \/ RefreshDevicesDone \/ ToggleDeviceTrustResync
           \/ BlockAllPortsResync \/ UnblockPortsResync
        /\ last'.ok /\ last'.cmd \in {"get_usb_devices", "get_trusted_devices"})
       => error' = Null]_vars

(* C16: blockStatus is "blocking" in every state in which a blockAllPorts     *)
(* invocation is in flight, also when two invocations overlap.                *)
C16_BlockingWhileInFlight ==
    (\E t \in InFlight : t.op = "blockAllPorts") => blockStatus = "blocking"

(* C17: blockStatus is never "unblocking", and no step of unblockPorts (its   *)
(* invocation, the settlement of unblock_usb_port, the settlement of its      *)
(* re-sync) changes blockStatus, on success or on failure.                    *)
C17_NeverUnblocking ==
    [][/\ blockStatus # "unblocking" /\ blockStatus' # "unblocking"
       /\ (UnblockPorts \/ UnblockPortsStep \/ UnblockPortsResync)
            => UNCHANGED blockStatus]_vars

(* An unblockPorts whose command failed has settled while a blockAllPorts is  *)
(* in flight: the status is still "blocking"                                  *)
C17_Witness ==
    /\ last.op = "unblockPorts" /\ last.ev = "settle" /\ ~last.ok
    /\ \E t \in InFlight : t.op = "blockAllPorts"
    /\ blockStatus = "blocking"

(* C18: the handler of "usb-device-changed" issues get_usb_devices and no     *)
(* other call and writes nothing at invocation; when the response arrives it  *)
(* issues no further call and leaves trustedDevices, autoblockEnabled,        *)
(* blockStatus (and isLoading) unchanged: only devices and error may change.  *)
C18_EventRefreshFrame ==
    [][/\ DeviceChanged =>
            /\ UNCHANGED store
            /\ tasks' = Spawn(Task("refreshDevices", "fetch", NoDevice,
                                   {Call("get_usb_devices", <<0, 0>>, FALSE)}))
       /\ RefreshDevicesDone =>
            /\ UNCHANGED <<trustedDevices, autoblockEnabled, blockStatus, isLoading>>
            /\ tasks' \sqsubseteq tasks
            /\ BagCardinality(tasks') = BagCardinality(tasks) - 1
            /\ last'.cmd = "get_usb_devices"
       /\ \A t \in BagToSet(tasks') :
            t.op = "refreshDevices" => {c.cmd : c \in t.calls} = {"get_usb_devices"}
      ]_vars

(* An event refresh has delivered a non-empty device list *)
C18_Witness ==
    /\ last.op = "refreshDevices" /\ last.ev = "settle" /\ last.ok
    /\ devices # <<>> /\ devices = get_usb_devices
    /\ Quiet /\ error = Null

(* C19: after an initialization whose fetches succeeded, whenever no          *)
(* toggleAutoblock is in flight the stored autoblockEnabled equals the        *)
(* backend's flag, for toggles that overlap and responses in any order.       *)
C19_AutoblockAgreement ==
    (~isLoading /\ ~\E t \in InFlight : t.op = "toggleAutoblock")
    => autoblockEnabled = bAutoblock

(* The user's controls and the event handler accept a further invocation *)
Invocable ==
    /\ ENABLED ToggleAutoblock /\ ENABLED BlockAllPorts /\ ENABLED UnblockPorts
    /\ devices # <<>> => ENABLED ToggleDeviceTrust
    /\ bListening => ENABLED DeviceChanged

====
